---- MODULE Spec2Model ----
(***************************************************************************)
(* State-machine model of the BookingCalendar React component              *)
(* (src/src/components/BookingCalendar.tsx).                                *)
(*                                                                         *)
(* The component's useState cells are the variables.  Every event handler  *)
(* and every continuation of an awaited promise is one atomic action (the  *)
(* UI thread runs them to completion); the useEffect on                    *)
(* [selectedCabin, selectedDate] runs as part of the action whose state    *)
(* updates changed one of its dependencies.  The rendered view (which      *)
(* buttons exist and which are disabled) is a function of the state.       *)
(*                                                                         *)
(* Strings with Lithuanian diacritics are written in plain ASCII.          *)
(***************************************************************************)
EXTENDS Integers, Sequences, FiniteSets, Bags, TLC

VARIABLES
    tz,             \* the UTC offsets of the browser's zone and of Europe/Vilnius
    user,           \* useAuth().user, as its uid ('' when nobody is signed in)
    now,            \* the system clock, in ticks (what new Date() returns)
    selectedDate,   \* useState<Date>: [t |-> timestamp, ref |-> object identity]
    selectedCabin,  \* useState('')
    selectedTime,   \* useState('')
    loading,        \* useState(false)
    timeSlots,      \* useState<TimeSlot[]>([])
    error,          \* useState('')
    fullName,       \* useState('')
    email,          \* useState('')
    loads,          \* bag of fetchAvailableTimeSlots calls in flight
    subs,           \* bag of handleBooking invocations suspended at an await
    slotsCurrent,   \* history: the slot list is the response to a request for the
                    \* current (resource, date), received since that pair was set
    last            \* history: the operation that ran last, and what it was given

vars == <<tz, user, now, selectedDate, selectedCabin, selectedTime, loading, timeSlots,
          error, fullName, email, loads, subs, slotsCurrent, last>>

-----------------------------------------------------------------------------
(* Bounds of the model *)

\* the clock runs from 0 to MaxNow
MaxNow == 2
\* clock ticks per calendar day
TicksPerDay == 2
\* at most this many awaited calls (loads and submissions) are in flight
MaxInFlight == 2

\* the catalog ../config/cabins (ids only)
Cabins == {"sauna-a", "sauna-b"}
\* the slot labels the availability provider uses
Times == {"09:00", "14:30"}
\* what the user types into the two contact inputs
Names == {"Jonas"}
Emails == {"jonas@pavyzdys.lt"}
\* the date buttons (by index) the user clicks while a booking is composed:
\* the first and the last of the row
DateChoices == {0, 6}

Slot(t, a) == [time |-> t, available |-> a]
\* the sequences fetchAvailableTimeSlots resolves with
SlotLists ==
    { <<>>,
      <<Slot("09:00", TRUE), Slot("14:30", FALSE)>> }

\* the values a rejected promise carries: Error objects (with a message,
\* possibly the empty one) and a thrown non-Error value
Thrown ==
    { [isError |-> TRUE,  message |-> "Failed to fetch"],
      [isError |-> TRUE,  message |-> ""],
      [isError |-> FALSE, message |-> "rejected"] }

\* the responses of the webhook: a 2xx status, or an error status
Responses == {"ok", "error"}

NoThrown == [isError |-> FALSE, message |-> ""]

\* the uids the authentication context supplies
Users == {"uid-1"}

\* the environment of the page: the UTC offset, in minutes, of the browser's
\* own time zone (local) and of Europe/Vilnius (vilnius) on the booked days
Zones ==
    { [local |-> 120, vilnius |-> 120],      \* a browser in Vilnius, winter
      [local |-> 180, vilnius |-> 180],      \* a browser in Vilnius, summer
      [local |-> 0,   vilnius |-> 180] }     \* a browser on UTC, summer

HomeZone == [local |-> 180, vilnius |-> 180]

-----------------------------------------------------------------------------
(* Messages *)

ValidationMsg == "Prasome uzpildyti visus laukus"
LoadFailedMsg == "Failed to load available time slots"
FallbackMsg   == "Ivyko klaida!"

-----------------------------------------------------------------------------
(* Dates (date-fns) *)

\* format(date, 'yyyy-MM-dd'): the calendar day of a timestamp
FormatDay(t) == t \div TicksPerDay

\* startOfToday(): midnight of the clock's day
startOfToday == (now \div TicksPerDay) * TicksPerDay

\* addDays(date, amount)
addDays(t, amount) == t + amount * TicksPerDay

\* isBefore(date, dateToCompare)
isBefore(t, u) == t < u

MinutesPerDay == 24 * 60

\* timeString.split(':') on the slot labels
Split(timeString) ==
    CASE timeString = "09:00" -> <<"09", "00">>
      [] timeString = "14:30" -> <<"14", "30">>

\* parseInt(s, 10) on their parts
parseInt(s) ==
    CASE s = "00" -> 0
      [] s = "09" -> 9
      [] s = "14" -> 14
      [] s = "30" -> 30

(* formatDateTimeForWebhook.  new Date(date) with setHours, setMinutes and  *)
(* setSeconds(0) is the instant at which the browser's own zone shows the   *)
(* calendar day of date and the given time of day;                          *)
(* toLocaleString('sv', { timeZone: 'Europe/Vilnius' }) writes that instant *)
(* as Vilnius shows it, 'YYYY-MM-DD HH:mm:ss'; the blank becomes 'T' and    *)
(* '+02:00' is appended.  The string is kept as the record of its fields.   *)
formatDateTimeForWebhook(date, timeString) ==
    LET parts   == Split(timeString)
        hours   == parseInt(parts[1])
        minutes == parseInt(parts[2])
        instant == (date.t \div TicksPerDay) * MinutesPerDay
                       + hours * 60 + minutes - tz.local
        wall    == instant + tz.vilnius
    IN  [date   |-> wall \div MinutesPerDay,
         hour   |-> (wall % MinutesPerDay) \div 60,
         minute |-> wall % 60,
         second |-> 0,
         suffix |-> "+02:00"]

-----------------------------------------------------------------------------
(* JavaScript truthiness of a string: '' is falsy, every other string truthy *)

Truthy(s) == Len(s) > 0

-----------------------------------------------------------------------------
(* The rendered view *)

\* Array.from({ length: 7 })
NumDateButtons == 7

\* mutant: the row starts tomorrow
DateButtonDate_FromTomorrow(i) == addDays(now, i + 1)

\* const date = addDays(new Date(), i)
DateButtonDate(i) == addDays(now, i)

\* const isDisabled = isBefore(date, startOfToday())
DateButtonDisabled(i) == isBefore(DateButtonDate(i), startOfToday)

\* mutant: the slot buttons stay on screen while loading
TimeButtonsShown_WhileLoading == Truthy(selectedCabin)

\* the slot buttons are rendered only in the last branch of
\* !selectedCabin ? ... : loading ? ... : (buttons)
TimeButtonsShown == Truthy(selectedCabin) /\ ~loading

\* disabled={!slot.available}
TimeButtonDisabled(slot) == ~slot.available

\* mutant: the email check left out of the disabled attribute
SubmitDisabled_NoEmail ==
    loading \/ ~Truthy(selectedCabin) \/ ~Truthy(selectedTime)
            \/ ~Truthy(fullName)

\* disabled={loading || !selectedCabin || !selectedTime || !fullName || !email}
SubmitDisabled ==
    loading \/ ~Truthy(selectedCabin) \/ ~Truthy(selectedTime)
            \/ ~Truthy(fullName) \/ ~Truthy(email)

-----------------------------------------------------------------------------
(* Helpers *)

InFlight == BagCardinality(loads) + BagCardinality(subs)

One(x) == SetToBag({x})

Last(op) ==
    [op |-> op, slots |-> <<>>, thrown |-> NoThrown, time0 |-> "", response |-> ""]

LoadRequest(cabinId, date) == [cabin |-> cabinId, date |-> FormatDay(date.t)]

-----------------------------------------------------------------------------
(* Initial state: the useState initial values; the effect's first run takes *)
(* the else branch (selectedCabin is '') and sets the empty slot list.      *)

InitCells ==
    /\ now = 0
    /\ selectedDate = [t |-> 0, ref |-> 0]
    /\ selectedCabin = ""
    /\ selectedTime = ""
    /\ loading = FALSE
    /\ timeSlots = <<>>
    /\ slotsCurrent = FALSE
    /\ error = ""
    /\ fullName = ""
    /\ email = ""
    /\ loads = EmptyBag
    /\ subs = EmptyBag
    /\ last = Last("mount")

\* a visitor who is not signed in, with a browser in the widget's home zone
Init ==
    /\ tz = HomeZone
    /\ user = ""
    /\ InitCells

\* the same visitor with a browser in any of the zones
InitTz ==
    /\ tz \in Zones
    /\ user = ""
    /\ InitCells

-----------------------------------------------------------------------------
(* loadTimeSlots up to its await: setLoading(true), setError(''), and the   *)
(* call of fetchAvailableTimeSlots(cabinId, format(date, 'yyyy-MM-dd')).    *)

loadTimeSlots(cabinId, date) ==
    /\ InFlight < MaxInFlight
    /\ loading' = TRUE
    /\ error' = ""
    /\ loads' = loads (+) One(LoadRequest(cabinId, date))

\* mutant: the dependency array holds selectedCabin only
useEffect_CabinOnly(cabin, date) ==
    IF cabin # selectedCabin
    THEN IF Truthy(cabin)
         THEN loadTimeSlots(cabin, date) /\ slotsCurrent' = FALSE
                /\ UNCHANGED timeSlots
         ELSE timeSlots' = <<>> /\ slotsCurrent' = FALSE
                /\ UNCHANGED <<loading, error, loads>>
    ELSE UNCHANGED <<loading, error, loads, timeSlots, slotsCurrent>>

(* The effect on [selectedCabin, selectedDate], run after a render in which *)
(* the cells hold cabin and date: it runs only if a dependency is not       *)
(* Object.is-equal to its previous value.                                   *)

useEffect(cabin, date) ==
    IF cabin # selectedCabin \/ date # selectedDate
    THEN IF Truthy(cabin)
         THEN loadTimeSlots(cabin, date) /\ slotsCurrent' = FALSE
                /\ UNCHANGED timeSlots
         ELSE timeSlots' = <<>> /\ slotsCurrent' = FALSE
                /\ UNCHANGED <<loading, error, loads>>
    ELSE UNCHANGED <<loading, error, loads, timeSlots, slotsCurrent>>

-----------------------------------------------------------------------------
(* User events *)

\* mutant: the chosen time survives the change of cabin
handleCabinSelect_KeepsTime(cabinId) ==
    /\ selectedCabin' = cabinId
    /\ useEffect(cabinId, selectedDate)
    /\ last' = [Last("handleCabinSelect") EXCEPT !.time0 = selectedTime]
    /\ UNCHANGED <<tz, user, now, selectedDate, selectedTime, fullName, email, subs>>

\* onClick={() => handleCabinSelect(cabin.id)}
handleCabinSelect(cabinId) ==
    /\ selectedCabin' = cabinId
    /\ selectedTime' = ""
    /\ useEffect(cabinId, selectedDate)
    /\ last' = [Last("handleCabinSelect") EXCEPT !.time0 = selectedTime]
    /\ UNCHANGED <<tz, user, now, selectedDate, fullName, email, subs>>

\* onClick={() => setSelectedDate(date)} of date button i: a new Date object
setSelectedDate(i) ==
    /\ ~DateButtonDisabled(i)
    /\ selectedDate' = [t |-> DateButtonDate(i), ref |-> 1 - selectedDate.ref]
    /\ useEffect(selectedCabin, selectedDate')
    /\ last' = Last("setSelectedDate")
    /\ UNCHANGED <<tz, user, now, selectedCabin, selectedTime, fullName, email, subs>>

\* onClick={() => setSelectedTime(slot.time)} of the button of timeSlots[k]
setSelectedTime(k) ==
    /\ TimeButtonsShown
    /\ ~TimeButtonDisabled(timeSlots[k])
    /\ selectedTime' = timeSlots[k].time
    /\ last' = Last("setSelectedTime")
    /\ UNCHANGED <<tz, user, now, selectedDate, selectedCabin, loading, timeSlots, slotsCurrent, error,
                   fullName, email, loads, subs>>

\* onChange={(e) => setFullName(e.target.value)}
setFullName(v) ==
    /\ fullName' = v
    /\ last' = Last("setFullName")
    /\ UNCHANGED <<tz, user, now, selectedDate, selectedCabin, selectedTime, loading,
                   timeSlots, slotsCurrent, error, email, loads, subs>>

\* onChange={(e) => setEmail(e.target.value)}
setEmail(v) ==
    /\ email' = v
    /\ last' = Last("setEmail")
    /\ UNCHANGED <<tz, user, now, selectedDate, selectedCabin, selectedTime, loading,
                   timeSlots, slotsCurrent, error, fullName, loads, subs>>

-----------------------------------------------------------------------------
(* handleBooking up to its first await *)

\* mutant: the validation forgets the full name
MissingField_NoFullName ==
    ~Truthy(selectedCabin) \/ ~Truthy(selectedTime) \/ ~Truthy(email)

\* if (!selectedCabin || !selectedTime || !fullName || !email)
MissingField ==
    ~Truthy(selectedCabin) \/ ~Truthy(selectedTime)
        \/ ~Truthy(fullName) \/ ~Truthy(email)

\* cabins.find(c => c.id === selectedCabin)?.name || ''
CabinName(id) ==
    CASE id = "sauna-a" -> "Sauna A"
      [] id = "sauna-b" -> "Sauna B"
      [] OTHER -> ""

\* the body of the POST to the webhook
WebhookPayload ==
    [fullName  |-> fullName,
     email     |-> email,
     dateTime  |-> formatDateTimeForWebhook(selectedDate, selectedTime),
     timeZone  |-> "Europe/Vilnius",
     cabin     |-> selectedCabin,
     cabinName |-> CabinName(selectedCabin)]

\* the argument of createBooking while createBooking is not called yet
NoRecord ==
    [cabin |-> "", date |-> 0, time |-> "", userId |-> "", userEmail |-> "",
     status |-> ""]

\* one handleBooking invocation suspended at `at`: the values its closure
\* holds (cabin, date and time are bookingData), the webhook body it sent and
\* the record it passed to createBooking
Submission(at) ==
    [cabin |-> selectedCabin, date |-> FormatDay(selectedDate.t),
     time |-> selectedTime, fullName |-> fullName, email |-> email,
     user |-> user, payload |-> WebhookPayload, record |-> NoRecord, at |-> at]

\* { ...bookingData, userId: user?.uid || 'anonymous', userEmail: email,
\*   status: 'confirmed' }, from the closure of the invocation s
BookingRecord(s) ==
    [cabin     |-> s.cabin,
     date      |-> s.date,
     time      |-> s.time,
     userId    |-> IF Truthy(s.user) THEN s.user ELSE "anonymous",
     userEmail |-> s.email,
     status    |-> "confirmed"]

handleBooking ==
    /\ IF MissingField
       THEN /\ error' = ValidationMsg
            /\ UNCHANGED <<loading, subs>>
       ELSE /\ InFlight < MaxInFlight
            /\ loading' = TRUE
            /\ error' = ""
            /\ subs' = subs (+) One(Submission("fetch"))
    /\ last' = Last("handleBooking")
    /\ UNCHANGED <<tz, user, now, selectedDate, selectedCabin, selectedTime, timeSlots, slotsCurrent,
                   fullName, email, loads>>

\* a click on the submit button: only an enabled button dispatches onClick
ClickSubmit ==
    /\ ~SubmitDisabled
    /\ handleBooking

\* handleBooking invoked while a required input is empty (the handler called
\* directly, as a test of the validation branch does: the button is disabled)
InvokeHandleBooking ==
    /\ \E f \in {selectedCabin, selectedTime, fullName, email} : f = ""
    /\ handleBooking

-----------------------------------------------------------------------------
(* Continuations of loadTimeSlots after its await *)

\* mutant: the response is appended to the slots already shown
LoadResolved_Merges(r, slots) ==
    /\ BagIn(r, loads)
    /\ loads' = loads (-) One(r)
    /\ timeSlots' = timeSlots \o slots
    /\ slotsCurrent' = (r = LoadRequest(selectedCabin, selectedDate))
    /\ loading' = FALSE
    /\ last' = [Last("loadResolved") EXCEPT !.slots = slots]
    /\ UNCHANGED <<tz, user, now, selectedDate, selectedCabin, selectedTime, error,
                   fullName, email, subs>>

\* mutant: a response to a request for another (resource, date) is discarded
LoadResolved_DropsStale(r, slots) ==
    /\ BagIn(r, loads)
    /\ loads' = loads (-) One(r)
    /\ IF r = LoadRequest(selectedCabin, selectedDate)
       THEN timeSlots' = slots /\ slotsCurrent' = TRUE
       ELSE UNCHANGED <<timeSlots, slotsCurrent>>
    /\ loading' = FALSE
    /\ last' = [Last("loadResolved") EXCEPT !.slots = slots]
    /\ UNCHANGED <<tz, user, now, selectedDate, selectedCabin, selectedTime, error,
                   fullName, email, subs>>

\* fetchAvailableTimeSlots resolved with slots: setTimeSlots(slots); finally
LoadResolved(r, slots) ==
    /\ BagIn(r, loads)
    /\ loads' = loads (-) One(r)
    /\ timeSlots' = slots
    /\ slotsCurrent' = (r = LoadRequest(selectedCabin, selectedDate))
    /\ loading' = FALSE
    /\ last' = [Last("loadResolved") EXCEPT !.slots = slots]
    /\ UNCHANGED <<tz, user, now, selectedDate, selectedCabin, selectedTime, error,
                   fullName, email, subs>>

\* mutant: the failure path of the loader has no finally block
LoadRejected_NoFinally(r) ==
    /\ BagIn(r, loads)
    /\ loads' = loads (-) One(r)
    /\ error' = LoadFailedMsg
    /\ timeSlots' = <<>>
    /\ slotsCurrent' = FALSE
    /\ last' = Last("loadRejected")
    /\ UNCHANGED <<tz, user, now, selectedDate, selectedCabin, selectedTime, loading,
                   fullName, email, subs>>

\* fetchAvailableTimeSlots rejected: the catch block; finally
LoadRejected(r) ==
    /\ BagIn(r, loads)
    /\ loads' = loads (-) One(r)
    /\ error' = LoadFailedMsg
    /\ timeSlots' = <<>>
    /\ slotsCurrent' = FALSE
    /\ loading' = FALSE
    /\ last' = Last("loadRejected")
    /\ UNCHANGED <<tz, user, now, selectedDate, selectedCabin, selectedTime,
                   fullName, email, subs>>

-----------------------------------------------------------------------------
(* Continuations of handleBooking after its awaits *)

\* err instanceof Error ? err.message : 'Ivyko klaida!'
CatchMessage(err) == IF err.isError THEN err.message ELSE FallbackMsg

\* the catch block and the finally block, for the invocation s
handleBookingCatch(s, err) ==
    /\ subs' = subs (-) One(s)
    /\ error' = CatchMessage(err)
    /\ loading' = FALSE
    /\ UNCHANGED <<tz, user, now, selectedDate, selectedCabin, selectedTime, timeSlots, slotsCurrent,
                   fullName, email, loads>>

\* mutant: the record is built from the state cells as they are when the
\* webhook call returns
WebhookResolved_LiveRecord(s, response) ==
    /\ BagIn(s, subs)
    /\ s.at = "fetch"
    /\ subs' = (subs (-) One(s))
                 (+) One([s EXCEPT !.at = "createBooking",
                                   !.record = BookingRecord(Submission("fetch"))])
    /\ last' = [Last("webhookResolved") EXCEPT !.response = response]
    /\ UNCHANGED <<tz, user, now, selectedDate, selectedCabin, selectedTime, loading,
                   timeSlots, slotsCurrent, error, fullName, email, loads>>

\* await fetch(webhook) returned: fetch resolves with the response whatever
\* its HTTP status; the response is dropped (no variable holds it) and
\* createBooking is called
WebhookResolved(s, response) ==
    /\ BagIn(s, subs)
    /\ s.at = "fetch"
    /\ subs' = (subs (-) One(s))
                 (+) One([s EXCEPT !.at = "createBooking",
                                   !.record = BookingRecord(s)])
    /\ last' = [Last("webhookResolved") EXCEPT !.response = response]
    /\ UNCHANGED <<tz, user, now, selectedDate, selectedCabin, selectedTime, loading,
                   timeSlots, slotsCurrent, error, fullName, email, loads>>

\* mutant: a thrown webhook call is swallowed and createBooking is called
WebhookRejected_Swallowed(s, err) ==
    /\ BagIn(s, subs)
    /\ s.at = "fetch"
    /\ subs' = (subs (-) One(s)) (+) One([s EXCEPT !.at = "createBooking"])
    /\ last' = [Last("webhookRejected") EXCEPT !.thrown = err]
    /\ UNCHANGED <<tz, user, now, selectedDate, selectedCabin, selectedTime, loading,
                   timeSlots, slotsCurrent, error, fullName, email, loads>>

\* await fetch(webhook) threw
WebhookRejected(s, err) ==
    /\ BagIn(s, subs)
    /\ s.at = "fetch"
    /\ handleBookingCatch(s, err)
    /\ last' = [Last("webhookRejected") EXCEPT !.thrown = err]

\* await createBooking(...) returned: the form reset, then finally; the render
\* that follows runs the effect with selectedCabin = '', which sets the
\* empty slot list once more and issues no request
CreateBookingResolved(s) ==
    /\ BagIn(s, subs)
    /\ s.at = "createBooking"
    /\ subs' = subs (-) One(s)
    /\ selectedCabin' = ""
    /\ selectedTime' = ""
    /\ timeSlots' = <<>>
    /\ slotsCurrent' = FALSE
    /\ fullName' = ""
    /\ email' = ""
    /\ error' = ""
    /\ loading' = FALSE
    /\ last' = Last("createBookingResolved")
    /\ UNCHANGED <<tz, user, now, selectedDate, loads>>

\* mutant: a failed createBooking call is compensated by a call that
\* withdraws the webhook notification
CreateBookingRejected_Compensates(s, err) ==
    /\ BagIn(s, subs)
    /\ s.at = "createBooking"
    /\ subs' = (subs (-) One(s)) (+) One([s EXCEPT !.at = "withdraw"])
    /\ error' = CatchMessage(err)
    /\ loading' = FALSE
    /\ last' = [Last("createBookingRejected") EXCEPT !.thrown = err]
    /\ UNCHANGED <<tz, user, now, selectedDate, selectedCabin, selectedTime, timeSlots,
                   slotsCurrent, fullName, email, loads>>

\* await createBooking(...) threw
CreateBookingRejected(s, err) ==
    /\ BagIn(s, subs)
    /\ s.at = "createBooking"
    /\ handleBookingCatch(s, err)
    /\ last' = [Last("createBookingRejected") EXCEPT !.thrown = err]

-----------------------------------------------------------------------------
(* The authentication context changes (sign-in, sign-out): the component is *)
(* rendered again with the new user; handlers already running keep theirs.  *)

\* const { user } = useAuth()
AuthChanged(u) ==
    /\ u # user
    /\ user' = u
    /\ last' = Last("authChanged")
    /\ UNCHANGED <<tz, now, selectedDate, selectedCabin, selectedTime, loading,
                   timeSlots, slotsCurrent, error, fullName, email, loads, subs>>

-----------------------------------------------------------------------------
(* The system clock advances.  It is the environment's step, not an        *)
(* operation of the component: `last` keeps naming the component's last    *)
(* operation.                                                               *)

Tick ==
    /\ now < MaxNow
    /\ now' = now + 1
    /\ UNCHANGED <<tz, user, selectedDate, selectedCabin, selectedTime, loading, timeSlots, slotsCurrent,
                   error, fullName, email, loads, subs, last>>

-----------------------------------------------------------------------------
(* Spec: one session of the widget, composing and submitting bookings.  The *)
(* clock stands at the mount time, so the date row offers the mount day and *)
(* the six days after it.                                                   *)

Next ==
    \/ \E c \in Cabins : handleCabinSelect(c)
    \/ \E i \in DateChoices : i < NumDateButtons /\ setSelectedDate(i)
    \/ \E k \in 1..Len(timeSlots) : setSelectedTime(k)
    \/ \E v \in Names \cup {""} : setFullName(v)
    \/ \E v \in Emails \cup {""} : setEmail(v)
    \/ ClickSubmit
    \/ InvokeHandleBooking
    \/ \E r \in BagToSet(loads) : \E slots \in SlotLists : LoadResolved(r, slots)
    \/ \E r \in BagToSet(loads) : LoadRejected(r)
    \/ \E s \in BagToSet(subs) : \E response \in Responses : WebhookResolved(s, response)
    \/ \E s \in BagToSet(subs) : \E err \in Thrown : WebhookRejected(s, err)
    \/ \E s \in BagToSet(subs) : CreateBookingResolved(s)
    \/ \E s \in BagToSet(subs) : \E err \in Thrown : CreateBookingRejected(s, err)

Spec == Init /\ [][Next]_vars

(* SpecClock: the date row and the availability loader under a running     *)
(* clock; every one of the date buttons is clicked.                         *)

NextClock ==
    \/ Tick
    \/ \E i \in 0..(NumDateButtons - 1) : setSelectedDate(i)
    \/ \E c \in Cabins : handleCabinSelect(c)
    \/ \E r \in BagToSet(loads) : \E slots \in SlotLists : LoadResolved(r, slots)
    \/ \E r \in BagToSet(loads) : LoadRejected(r)

SpecClock == Init /\ [][NextClock]_vars

(* SpecTz: the session of Spec in a browser of any time zone *)

SpecTz == InitTz /\ [][Next]_vars

-----------------------------------------------------------------------------
(* SpecAuth: bookings that go through, composed and edited by a user who   *)
(* may be signed in and who signs in and out meanwhile.                     *)

InitAuth ==
    /\ tz = HomeZone
    /\ user \in Users \cup {""}
    /\ InitCells

NextAuth ==
    \/ \E u \in Users \cup {""} : AuthChanged(u)
    \/ \E c \in Cabins : handleCabinSelect(c)
    \/ \E i \in DateChoices : i < NumDateButtons /\ setSelectedDate(i)
    \/ \E k \in 1..Len(timeSlots) : setSelectedTime(k)
    \/ \E v \in Names : setFullName(v)
    \/ \E v \in Emails \cup {""} : setEmail(v)
    \/ ClickSubmit
    \/ \E r \in BagToSet(loads) : \E slots \in SlotLists : LoadResolved(r, slots)
    \/ \E s \in BagToSet(subs) : \E response \in Responses : WebhookResolved(s, response)
    \/ \E s \in BagToSet(subs) : CreateBookingResolved(s)

SpecAuth == InitAuth /\ [][NextAuth]_vars

(* SpecLive: a session in which the awaited promises settle: a load in      *)
(* flight, a webhook call in flight and a createBooking call in flight are  *)
(* each eventually resolved or rejected.  The user selects resources, the   *)
(* first date of the row and times, fills in the contact fields and         *)
(* submits.                                                                 *)

LoadSettles ==
    \/ \E r \in BagToSet(loads) : \E slots \in SlotLists : LoadResolved(r, slots)
    \/ \E r \in BagToSet(loads) : LoadRejected(r)

WebhookSettles ==
    \/ \E s \in BagToSet(subs) : \E response \in Responses : WebhookResolved(s, response)
    \/ \E s \in BagToSet(subs) : \E err \in Thrown : WebhookRejected(s, err)

CreateBookingSettles ==
    \/ \E s \in BagToSet(subs) : CreateBookingResolved(s)
    \/ \E s \in BagToSet(subs) : \E err \in Thrown : CreateBookingRejected(s, err)

NextLive ==
    \/ \E c \in Cabins : handleCabinSelect(c)
    \/ setSelectedDate(0)
    \/ \E k \in 1..Len(timeSlots) : setSelectedTime(k)
    \/ \E v \in Names : setFullName(v)
    \/ \E v \in Emails : setEmail(v)
    \/ ClickSubmit
    \/ LoadSettles
    \/ WebhookSettles
    \/ CreateBookingSettles

SpecLive ==
    /\ Init
    /\ [][NextLive]_vars
    /\ WF_vars(LoadSettles)
    /\ WF_vars(WebhookSettles)
    /\ WF_vars(CreateBookingSettles)

-----------------------------------------------------------------------------
(* Properties *)

AnyRequiredEmpty ==
    selectedCabin = "" \/ selectedTime = "" \/ fullName = "" \/ email = ""

LoadsIssued == BagCardinality(loads') - BagCardinality(loads)

\* C1: in every reachable state the submit button is disabled exactly when
\* loading is true or one of resource, time, full name, email is empty.
C1_SubmitDisabledIff == SubmitDisabled <=> (loading \/ AnyRequiredEmpty)

\* all four inputs are filled and only the loading flag disables the button
C1_Witness ==
    /\ ~AnyRequiredEmpty
    /\ loading
    /\ SubmitDisabled

\* C2: a run of handleBooking that finds a required input empty sets the
\* validation message and does nothing else: no call is issued or advanced,
\* the loading flag and every selection and contact field keep their values.
C2_ValidationOnly ==
    [][(last'.op = "handleBooking" /\ AnyRequiredEmpty)
         => /\ error' = ValidationMsg
            /\ UNCHANGED <<loads, subs, loading, selectedCabin, selectedDate,
                           selectedTime, fullName, email, timeSlots>>]_vars

\* the handler has run with only the full name missing
C2_Witness ==
    /\ last.op = "handleBooking"
    /\ fullName = ""
    /\ selectedCabin # "" /\ selectedTime # "" /\ email # ""
    /\ error = ValidationMsg
    /\ subs = EmptyBag

\* C3: right after a submission succeeded the widget is in its initial
\* state: resource, time, full name, email, slot list and error are empty,
\* loading is false and the selected date is the initial date.
C3_BackToInitialState ==
    last.op = "createBookingResolved"
        => /\ selectedCabin = "" /\ selectedTime = ""
           /\ fullName = "" /\ email = ""
           /\ timeSlots = <<>> /\ error = ""
           /\ loading = FALSE
           /\ FormatDay(selectedDate.t) = FormatDay(0)

\* C4: a rejected webhook call or createBooking call leaves resource, date,
\* time, full name and email as they were and leaves a non-empty error
\* message, whatever value was thrown.
C4_FailureKeepsFormAndShowsError ==
    [][last'.op \in {"webhookRejected", "createBookingRejected"}
         => /\ UNCHANGED <<selectedCabin, selectedDate, selectedTime,
                           fullName, email>>
            /\ error' # ""]_vars

\* C5: after a failed load the slot list is empty and the error is the
\* load-failure text; after a successful load the slot list is the returned
\* sequence, whatever it held before.
C5_LoadOutcome ==
    /\ last.op = "loadRejected" => (timeSlots = <<>> /\ error = LoadFailedMsg)
    /\ last.op = "loadResolved" => timeSlots = last.slots

\* a load has just resolved with a non-empty sequence
C5_Witness ==
    /\ last.op = "loadResolved"
    /\ last.slots # <<>>
    /\ timeSlots = last.slots

\* C6: selecting a resource leaves the selected time empty and leaves the
\* selected date, the full name and the email as they were.
C6_CabinSelectClearsTime ==
    [][last'.op = "handleCabinSelect"
         => /\ selectedTime' = ""
            /\ UNCHANGED <<selectedDate, fullName, email>>]_vars

\* another resource was selected while a time was chosen
C6_Witness ==
    /\ last.op = "handleCabinSelect"
    /\ last.time0 # ""
    /\ selectedTime = ""
    /\ selectedCabin # ""

\* C7: a step issues an availability request exactly when it changes the
\* selected resource or the selected date and leaves the resource non-empty,
\* and the request is for the new (resource, date) pair; a step that empties
\* the resource clears the slot list and issues no request.
C7_LoaderInvokedOnChange ==
    [][/\ (LoadsIssued > 0)
            <=> /\ selectedCabin' # selectedCabin \/ selectedDate' # selectedDate
                /\ selectedCabin' # ""
       /\ (LoadsIssued > 0)
            => loads' = loads (+) One([cabin |-> selectedCabin',
                                       date |-> FormatDay(selectedDate'.t)])
       /\ (selectedCabin # "" /\ selectedCabin' = "")
            => (timeSlots' = <<>> /\ loads' = loads)]_vars

\* the date was changed with a resource selected, and the request for the
\* new pair is in flight
C7_Witness ==
    /\ last.op = "setSelectedDate"
    /\ selectedCabin # ""
    /\ BagIn([cabin |-> selectedCabin, date |-> FormatDay(selectedDate.t)], loads)
    /\ FormatDay(selectedDate.t) # FormatDay(0)

\* C8: the loading flag is true whenever a load or a submission is in flight.
C8_LoadingWhileInFlight ==
    (loads # EmptyBag \/ subs # EmptyBag) => loading

\* C9: every date button that is not disabled carries a date of the seven
\* days that start at the clock's current day; none lies before that day.
C9_SelectableDatesInWindow ==
    \A i \in 0..(NumDateButtons - 1) :
        ~DateButtonDisabled(i)
            => /\ FormatDay(DateButtonDate(i)) >= FormatDay(now)
               /\ FormatDay(DateButtonDate(i)) <= FormatDay(now) + (NumDateButtons - 1)

\* the clock stands within a day and the last button of the row was clicked
C9_Witness ==
    /\ now > startOfToday
    /\ last.op = "setSelectedDate"
    /\ selectedDate.t = DateButtonDate(NumDateButtons - 1)

\* C10: a step that selects a time starts with a resource selected, the
\* loading flag false and the chosen time an available slot of the slot
\* list, and it changes the selected time only.
C10_SelectTimeGuard ==
    [][last'.op = "setSelectedTime"
         => /\ selectedCabin # ""
            /\ ~loading
            /\ \E k \in 1..Len(timeSlots) :
                   timeSlots[k].time = selectedTime' /\ timeSlots[k].available
            /\ UNCHANGED <<selectedDate, selectedCabin, loading, timeSlots,
                           error, fullName, email, loads, subs>>]_vars

\* a time has just been selected
C10_Witness ==
    /\ last.op = "setSelectedTime"
    /\ selectedTime # ""
    /\ selectedCabin # ""
    /\ ~loading

\* the number of submissions of the bag b that are suspended at the await `at`
AtStage(b, at) ==
    BagCardinality([x \in {y \in BagToSet(b) : y.at = at} |-> b[x]])

\* C11: a submission starts at the webhook call; createBooking is called only
\* by the step in which the webhook call returned; the form reset is the step
\* in which createBooking returned; a thrown webhook call ends the submission
\* without a createBooking call.
C11_SubmissionOrder ==
    [][/\ AtStage(subs', "fetch") > AtStage(subs, "fetch")
            => /\ last'.op = "handleBooking"
               /\ AtStage(subs', "createBooking") = AtStage(subs, "createBooking")
       /\ AtStage(subs', "createBooking") > AtStage(subs, "createBooking")
            => /\ last'.op = "webhookResolved"
               /\ AtStage(subs', "fetch") = AtStage(subs, "fetch") - 1
       /\ last'.op = "createBookingResolved"
            => /\ AtStage(subs', "createBooking") = AtStage(subs, "createBooking") - 1
               /\ AtStage(subs', "fetch") = AtStage(subs, "fetch")
       /\ last'.op = "webhookRejected"
            => /\ AtStage(subs', "fetch") = AtStage(subs, "fetch") - 1
               /\ AtStage(subs', "createBooking") = AtStage(subs, "createBooking")
               /\ UNCHANGED <<selectedCabin, selectedTime, fullName, email>>]_vars

\* the webhook call of the only submission has thrown: nothing is in flight
\* and the form still holds the booking
C11_Witness ==
    /\ last.op = "webhookRejected"
    /\ subs = EmptyBag
    /\ ~AnyRequiredEmpty

\* C12: the webhook timestamp of every submission is the selected calendar
\* date and the selected time of day, with seconds 00 and the suffix +02:00,
\* and the timezone field is Europe/Vilnius.
C12_WebhookTimestamp ==
    \A s \in BagToSet(subs) :
        /\ s.payload.dateTime =
               [date   |-> s.date,
                hour   |-> parseInt(Split(s.time)[1]),
                minute |-> parseInt(Split(s.time)[2]),
                second |-> 0,
                suffix |-> "+02:00"]
        /\ s.payload.timeZone = "Europe/Vilnius"

\* C13: no step but a load's own settling takes it out of flight (a change
\* of resource or date cancels nothing), and every response is written to
\* the slot list in the step in which it resolves, whatever the selection
\* is by then: the slot list is the response that resolved last.
C13_LastResponseWins ==
    [][/\ (\E r \in BagToSet(loads) : CopiesIn(r, loads') < CopiesIn(r, loads))
            => last'.op \in {"loadResolved", "loadRejected"}
       /\ last'.op = "loadResolved"
            => /\ timeSlots' = last'.slots
               /\ BagCardinality(loads') = BagCardinality(loads) - 1]_vars

\* every load has resolved and the response that resolved last, now the slot
\* list, is not one for the selected resource and date
C13_Witness ==
    /\ last.op = "loadResolved"
    /\ loads = EmptyBag
    /\ selectedCabin # ""
    /\ ~slotsCurrent
    /\ timeSlots = last.slots
    /\ timeSlots # <<>>

\* C14: while a submission is in flight the submit button is disabled, and
\* never is more than one submission in flight.
C14_OneSubmissionInFlight ==
    /\ subs # EmptyBag => SubmitDisabled
    /\ BagCardinality(subs) <= 1

\* C15: createBooking is called when the webhook call returns, whatever
\* the webhook answered; a createBooking call in flight can return and can
\* throw; the step in which it does ends that submission and issues no
\* call: nothing is sent to undo the webhook notification or the booking.
C15_NoCompensation ==
    /\ [](\A s \in BagToSet(subs) :
             s.at = "createBooking"
                 => /\ ENABLED CreateBookingResolved(s)
                    /\ \A err \in Thrown : ENABLED CreateBookingRejected(s, err))
    /\ [][/\ last'.op = "webhookResolved"
                => AtStage(subs', "createBooking")
                       = AtStage(subs, "createBooking") + 1
          /\ last'.op \in {"createBookingResolved", "createBookingRejected"}
                => /\ \E s \in BagToSet(subs) :
                          s.at = "createBooking" /\ subs' = subs (-) One(s)
                   /\ loads' = loads]_vars

\* the webhook answered with an error status and createBooking is in flight
\* for that submission
C15_Witness ==
    /\ last.op = "webhookResolved"
    /\ last.response = "error"
    /\ AtStage(subs, "createBooking") = 1
    /\ loads = EmptyBag

\* the webhook was delivered, createBooking threw, and nothing is in flight:
\* the form still holds the booking
C15_DeliveredNotPersisted ==
    /\ last.op = "createBookingRejected"
    /\ subs = EmptyBag
    /\ loads = EmptyBag
    /\ ~AnyRequiredEmpty

\* C16: when every call in flight settles, a true loading flag eventually
\* becomes false, and the flag is false whenever no load and no submission
\* is in flight, whichever calls failed.
C16_LoadingEventuallyFalse ==
    /\ loading ~> ~loading
    /\ []((loads = EmptyBag /\ subs = EmptyBag) => ~loading)

\* a submission has failed at createBooking, nothing is in flight and the
\* loading flag is false
C16_Witness ==
    /\ last.op = "createBookingRejected"
    /\ loads = EmptyBag /\ subs = EmptyBag
    /\ ~loading
    /\ error # ""

\* C17: whenever no resource is selected and no availability load is in
\* flight, the slot list is empty.
C17_NoResourceNoSlots ==
    (selectedCabin = "" /\ loads = EmptyBag) => timeSlots = <<>>

\* C18: a non-empty selected time is an available slot of the slot list
\* loaded for the currently selected resource and date, so that the time of
\* a booking is one the provider reported available for the booking's own
\* resource and date.
C18_TimeAvailableForSelection ==
    selectedTime # ""
        => /\ slotsCurrent
           /\ \E k \in 1..Len(timeSlots) :
                  timeSlots[k].time = selectedTime /\ timeSlots[k].available

\* C19: the webhook body and the booking record of a submission hold the
\* resource, date, time and email of the state in which the submission was
\* triggered; userId is the uid of the user of that state, or 'anonymous'
\* when there was none, and status is 'confirmed'; no edit made while the
\* submission is in flight changes it; body and record name one resource.
C19_BuiltFromValuesAtSubmit ==
    /\ [](\A s \in BagToSet(subs) :
             /\ s.payload.cabin = s.cabin
             /\ s.payload.email = s.email
             /\ s.payload.dateTime.date = s.date
             /\ s.payload.dateTime.hour = parseInt(Split(s.time)[1])
             /\ s.payload.dateTime.minute = parseInt(Split(s.time)[2])
             /\ s.at = "createBooking"
                    => /\ s.record = [cabin     |-> s.cabin,
                                      date      |-> s.date,
                                      time      |-> s.time,
                                      userId    |-> IF s.user = "" THEN "anonymous"
                                                                   ELSE s.user,
                                      userEmail |-> s.email,
                                      status    |-> "confirmed"]
                       /\ s.record.cabin = s.payload.cabin)
    /\ [][/\ (last'.op = "handleBooking" /\ subs' # subs)
                => \E s \in BagToSet(subs') :
                       /\ subs' = subs (+) One(s)
                       /\ s.at = "fetch"
                       /\ s.cabin = selectedCabin
                       /\ s.date = FormatDay(selectedDate.t)
                       /\ s.time = selectedTime
                       /\ s.email = email
                       /\ s.user = user
          /\ last'.op = "webhookResolved"
                => \E s \in BagToSet(subs) : \E t \in BagToSet(subs') :
                       /\ subs' = (subs (-) One(s)) (+) One(t)
                       /\ s = [t EXCEPT !.at = "fetch", !.record = NoRecord]
          /\ last'.op \in {"authChanged", "handleCabinSelect", "setSelectedDate",
                            "setSelectedTime", "setFullName", "setEmail",
                            "loadResolved", "loadRejected"}
                => subs' = subs]_vars

\* createBooking is in flight with the record of an anonymous booking, and
\* by now the user has signed in, selected another resource and another
\* date and cleared the email
C19_Witness ==
    \E s \in BagToSet(subs) :
        /\ s.at = "createBooking"
        /\ s.record.userId = "anonymous"
        /\ user # ""
        /\ selectedCabin # s.cabin
        /\ FormatDay(selectedDate.t) # s.date
        /\ email # s.email

\* createBooking is in flight with the record of a signed-in user's booking
C19_SignedIn ==
    \E s \in BagToSet(subs) :
        /\ s.at = "createBooking"
        /\ s.record.userId \in Users
        /\ user = ""

====
